---- MODULE Spec2Model ----
(***************************************************************************)
(* A model of src/etherpad.py: the Etherpad API client class `Etherpad`.   *)
(*                                                                         *)
(* Python values are tagged records (PyBool, PyStr, PyList, ...), strings  *)
(* are TLA+ strings handled character by character, and every public       *)
(* method is one action that runs the whole method against the replies of  *)
(* the HTTP server, which are inputs of the action.  A call leaves in      *)
(* `last` what it returned or raised and the trace of what it did          *)
(* (requests issued, errors logged, reply data read).                      *)
(***************************************************************************)
EXTENDS Integers, Sequences, FiniteSets, TLC

VARIABLES
    _log,   \* Etherpad._log: the list created once in the class body (line 30)
    inst,   \* the attributes of each client instance
    last,   \* the outcome of the last constructor or method call
    now     \* number of method calls made so far

vars == <<_log, inst, last, now>>

----------------------------------------------------------------------------
(* Bounds of the model *)

\* number of public method calls in one behaviour
MaxCalls == 1

\* longest pad listing the server returns for listAllPads
MaxPads == 2

----------------------------------------------------------------------------
(* Python strings *)

Char(s, i) == SubSeq(s, i, i)

Tail_(s, i) == SubSeq(s, i, Len(s))

StartsWith(s, p) == Len(s) >= Len(p) /\ SubSeq(s, 1, Len(p)) = p

\* str.find: 1-based index of the first occurrence of p in s at or after
\* position i, 0 when there is none
Find(s, p, i) ==
    LET hits == { k \in i..(Len(s) - Len(p) + 1) : SubSeq(s, k, k + Len(p) - 1) = p }
    IN  IF hits = {} THEN 0 ELSE CHOOSE k \in hits : \A j \in hits : k <= j

\* str.replace(old, new) / re.sub of a literal: every non-overlapping
\* occurrence of old, left to right (k is where the first one starts)
RECURSIVE Replace(_, _, _)
ReplaceAt(s, old, new, k) ==
    IF k = 0 THEN s
    ELSE SubSeq(s, 1, k - 1) \o new \o Replace(Tail_(s, k + Len(old)), old, new)

Replace(s, old, new) == ReplaceAt(s, old, new, Find(s, old, 1))

\* str.split(sep)
RECURSIVE Split(_, _)
SplitAt(s, sep, k) ==
    IF k = 0 THEN <<s>>
    ELSE <<SubSeq(s, 1, k - 1)>> \o Split(Tail_(s, k + Len(sep)), sep)

Split(s, sep) == SplitAt(s, sep, Find(s, sep, 1))

Digit(c) ==
    CASE c = "0" -> 0 [] c = "1" -> 1 [] c = "2" -> 2 [] c = "3" -> 3
      [] c = "4" -> 4 [] c = "5" -> 5 [] c = "6" -> 6 [] c = "7" -> 7
      [] c = "8" -> 8 [] c = "9" -> 9

\* int(s) of a string of decimal digits
RECURSIVE ParseInt(_)
ParseInt(s) ==
    IF Len(s) = 0 THEN 0
    ELSE ParseInt(SubSeq(s, 1, Len(s) - 1)) * 10 + Digit(Char(s, Len(s)))

\* str(i) for i >= 0
DigitStr(d) == Char("0123456789", d + 1)

RECURSIVE IntStr(_)
IntStr(i) == IF i < 10 THEN DigitStr(i) ELSE IntStr(i \div 10) \o DigitStr(i % 10)

----------------------------------------------------------------------------
(* distutils.version.StrictVersion *)

\* StrictVersion(vstring).version: the tuple (major, minor, patch) of ints,
\* patch 0 when omitted.  The inputs of the model carry no pre-release tag.
VersionTuple(parts) ==
    <<ParseInt(parts[1]), ParseInt(parts[2]),
      IF Len(parts) > 2 THEN ParseInt(parts[3]) ELSE 0>>

StrictVersion(vstring) == VersionTuple(Split(vstring, "."))

\* x < y for tuples of three ints
TupleLess(x, y) ==
    \/ x[1] < y[1]
    \/ x[1] = y[1] /\ x[2] < y[2]
    \/ x[1] = y[1] /\ x[2] = y[2] /\ x[3] < y[3]

\* ord() of the characters of a version string: "." sorts before the digits
Ord(c) == IF c = "." THEN 0 ELSE Digit(c) + 1

\* a < b for Python strings of digits and dots
RECURSIVE StrLess(_, _)
StrLess(a, b) ==
    IF Len(b) = 0 THEN FALSE
    ELSE IF Len(a) = 0 THEN TRUE
    ELSE IF Char(a, 1) = Char(b, 1) THEN StrLess(Tail_(a, 2), Tail_(b, 2))
    ELSE Ord(Char(a, 1)) < Ord(Char(b, 1))

\* A client that compares the version strings themselves
TextualVersionLess(a, b) == StrLess(a, b)

\* StrictVersion(a) < StrictVersion(b): tuple comparison of the versions
VersionLess(a, b) == TupleLess(StrictVersion(a), StrictVersion(b))

----------------------------------------------------------------------------
(* Python values *)

PyNone == [t |-> "NoneType"]
PyBool(b) == [t |-> "bool", b |-> b]
PyInt(i) == [t |-> "int", i |-> i]
PyStr(s) == [t |-> "str", s |-> s]
PyList(l) == [t |-> "list", l |-> l]
PyDict(d) == [t |-> "dict", d |-> d]

\* no exception pending
NoExc == [type |-> "", msg |-> ""]

Exc(type, msg) == [type |-> type, msg |-> msg]

\* a + b + ... of the operands of a message expression: the concatenation
\* when every operand is a str, TypeError otherwise (str + int)
RECURSIVE Concat(_)
Concat(parts) ==
    IF Len(parts) = 0 THEN PyStr("")
    ELSE IF Head(parts).t # "str" THEN [t |-> "TypeError"]
    ELSE LET rest == Concat(Tail(parts))
         IN  IF rest.t # "str" THEN rest ELSE PyStr(Head(parts).s \o rest.s)

\* '{}'.format(v)
Format(v) ==
    CASE v.t = "str" -> v.s
      [] v.t = "NoneType" -> "None"
      [] v.t = "int" -> IntStr(v.i)
      [] v.t = "bool" -> IF v.b THEN "True" ELSE "False"

----------------------------------------------------------------------------
(* The execution of one call: the log, what the call did, the exception *)

\* ctx.log is Etherpad._log, ctx.time what datetime.now() gives during the
\* call, ctx.trace the events of the call so far and ctx.exc the exception
\* that is propagating (NoExc when none)
Ctx(log, time) == [log |-> log, time |-> time, trace |-> <<>>, exc |-> NoExc]

Raised(ctx) == ctx.exc.type # ""

Raise(ctx, exc) == [ctx EXCEPT !.exc = exc]

Event(ctx, ev) == [ctx EXCEPT !.trace = Append(@, ev)]

\* what a method hands back: the context and the returned value (nothing
\* is returned when an exception propagates)
Return(ctx, value) == [ctx |-> ctx, ret |-> IF Raised(ctx) THEN PyNone ELSE value]

TypeError(ctx, msg) == Return(Raise(ctx, Exc("TypeError", msg)), PyNone)

\* Etherpad.__error(line, error, etype): append (timestamp, line, error,
\* etype) to self._log, which is the class's list, then raise ValueError
\* when self._ignore is False
Error(self, ctx, line, error, etype) ==
    LET entry == [timestamp |-> ctx.time, line |-> line, error |-> error, etype |-> etype]
        logged == [ctx EXCEPT !.log = Append(@, entry),
                              !.trace = Append(@, [e |-> "error", line |-> line, msg |-> error])]
    IN  IF self._ignore = FALSE
        THEN Raise(logged, Exc("ValueError", error))
        ELSE logged

----------------------------------------------------------------------------
(* The Etherpad server: the pads, authors and replies the client is run on *)

PadIds == {"g.abcdefgh$p1", "g.abcdefgh$p2", "scratchpad"}

AuthorIds == {"a.12", "a.123", "a.7"}

\* the author lists of the pads, as listAuthorsOfPad returns them
AuthorMaps ==
    { [p \in PadIds |-> CASE p = "g.abcdefgh$p1" -> <<"a.12", "a.123">>
                          [] p = "g.abcdefgh$p2" -> <<"a.7">>
                          [] OTHER -> <<"a.7", "a.12">>],
      [p \in PadIds |-> CASE p = "g.abcdefgh$p1" -> <<>>
                          [] p = "g.abcdefgh$p2" -> <<"a.123", "a.7", "a.12">>
                          [] OTHER -> <<"a.123">>],
      [p \in PadIds |-> CASE p = "g.abcdefgh$p1" -> <<"a.7", "a.123">>
                          [] p = "g.abcdefgh$p2" -> <<"a.12", "a.7">>
                          [] OTHER -> <<>>] }

AuthorName(a) ==
    CASE a = "a.12" -> "Ann" [] a = "a.123" -> "Bob" [] OTHER -> "Cyd"

PadText(p) == "text of " \o p

\* createDiffHTML's markup: a style element, one span per author of the pad
\* with the author's class, and the line ends the client strips
RECURSIVE Spans(_)
Spans(authors) ==
    IF Len(authors) = 0 THEN ""
    ELSE "<span class=\"author" \o Replace(Head(authors), ".", "_") \o "\">by "
           \o Head(authors) \o "</span>\n" \o Spans(Tail(authors))

DiffHtml(authors) == "<style>.x{}</style>" \o Spans(authors) \o "end\r\n"

\* sequences of distinct elements of S of length n
RECURSIVE Arrangements(_, _)
Arrangements(S, n) ==
    IF n = 0 THEN {<<>>}
    ELSE UNION { { <<x>> \o r : r \in Arrangements(S \ {x}, n - 1) } : x \in S }

\* the pad listings listAllPads may return
Listings == UNION { Arrangements(PadIds, n) : n \in 0..MaxPads }

Methods ==
    {"listAuthorsOfPad", "getAuthorName", "getText", "createDiffHTML",
     "listAllPads", "getLastEdited"}

NoFault == [method |-> "", arg |-> "", kind |-> ""]

\* one request the server fails: with a non-200 status ("http") or with a
\* nonzero code in the reply (a rejected argument, "api", or a rejected
\* key, "key")
Faults(requests) ==
    { [method |-> r[1], arg |-> r[2], kind |-> k] :
        r \in requests, k \in {"http", "api", "key"} }

\* the code of the envelope of a failed API call: 4 for a rejected key, 1
\* for a rejected argument
ApiCode(kind) == IF kind = "key" THEN 4 ELSE 1

\* the message of the envelope of a failed API call
ApiMessage(method, kind) ==
    CASE kind = "key" -> "no or wrong API Key"
      [] method = "getAuthorName" -> "authorID does not exist"
      [] OTHER -> "padID does not exist"

\* the body of a successful reply
ReplyData(w, method, arg) ==
    CASE method = "listAuthorsOfPad" -> PyDict([authorIDs |-> w.amap[arg]])
      [] method = "getAuthorName" -> PyStr(AuthorName(arg))
      [] method = "getText" -> PyDict([text |-> PadText(arg)])
      [] method = "createDiffHTML" -> PyDict([html |-> DiffHtml(w.amap[arg])])
      [] method = "listAllPads" -> PyDict([padIDs |-> w.pads])
      [] method = "getLastEdited" -> PyDict([lastEdited |-> 1000 + Len(arg)])

\* the HTTP response to GET .../api/<version>/<method>
Reply(w, method, arg) ==
    IF w.fault.method = method /\ w.fault.arg = arg /\ w.fault.kind = "http"
    THEN [status_code |-> 500, json |-> PyNone]
    ELSE IF w.fault.method = method /\ w.fault.arg = arg
    THEN [status_code |-> 200,
          json |-> PyDict([code |-> ApiCode(w.fault.kind),
                           message |-> ApiMessage(method, w.fault.kind),
                           data |-> PyNone])]
    ELSE [status_code |-> 200,
          json |-> PyDict([code |-> 0, message |-> "ok", data |-> ReplyData(w, method, arg)])]


----------------------------------------------------------------------------
(* Etherpad._request *)

\* the status error of _request.  Its message is built as
\* str + resp.status_code + str before __error is called, and status_code
\* is an int.
StatusError(self, sent, error) ==
    IF error.t # "str"
    THEN TypeError(sent, "must be str, not int")
    ELSE Return(Error(self, sent, 342, error.s, PyNone), PyBool(FALSE))

\* _request after requests.get(url, params) answered resp
Respond(self, sent, resp) ==
    IF resp.status_code # 200
    THEN StatusError(self, sent,
             Concat(<<PyStr("An unexpected error occurred while connecting to Etherpad API (Status code: \""),
                      PyInt(resp.status_code), PyStr("\").")>>))
    ELSE Return(sent, resp.json)

\* Etherpad._request(method, params)
Request(self, ctx, w, method, arg) ==
    Respond(self,
            Event(ctx, [e |-> "request", method |-> method, arg |-> arg,
                        url |-> "http://" \o Format(self._base) \o "/api/"
                                  \o self._version \o "/" \o method,
                        apikey |-> Format(self._apikey)]),
            Reply(w, method, arg))

\* the event of reading ['data'] of the reply r returned by _request
DataRead(r, method) ==
    Event(r.ctx, [e |-> "data", method |-> method, code |-> r.ret.d.code])

----------------------------------------------------------------------------
(* The public methods that make one request *)

VersionMessage(self) ==
    "Etherpad API version 1.2.7 or later is required, you have: " \o self._version \o "."

\* unique_authors from line 91 on, r being what _request handed back.
\* `data['code'] is not 0` is an identity test; CPython shares the small
\* ints, so it is code # 0.
unique_authors_data(self, pad, r) ==
    IF Raised(r.ctx) THEN r
    ELSE IF r.ret.t # "dict" THEN TypeError(r.ctx, "'bool' object is not subscriptable")
    ELSE IF r.ret.d.code # 0
    THEN Return(Error(self, r.ctx, 92, "PadId \"" \o pad \o "\" does not exist.", PyNone),
                PyList(<<>>))
    ELSE IF r.ret.d.data.t # "dict"
    THEN TypeError(DataRead(r, "listAuthorsOfPad"), "'NoneType' object is not subscriptable")
    ELSE Return(DataRead(r, "listAuthorsOfPad"), PyList(r.ret.d.data.d.authorIDs))

\* Etherpad.unique_authors(pad)
unique_authors(self, ctx, w, pad) ==
    IF VersionLess(self._version, "1.0.0")
    THEN Return(Error(self, ctx, 81, VersionMessage(self), PyNone), PyBool(FALSE))
    ELSE unique_authors_data(self, pad, Request(self, ctx, w, "listAuthorsOfPad", pad))

\* author_name from line 123 on
author_name_data(self, authorId, r) ==
    IF Raised(r.ctx) THEN r
    ELSE IF r.ret.t # "dict" THEN TypeError(r.ctx, "'bool' object is not subscriptable")
    ELSE IF r.ret.d.code # 0
    THEN Return(Error(self, r.ctx, 124, "AuthorId \"" \o authorId \o "\" does not exist.", PyNone),
                PyBool(FALSE))
    ELSE Return(DataRead(r, "getAuthorName"), r.ret.d.data)

\* Etherpad.author_name(authorId)
author_name(self, ctx, w, authorId) ==
    IF VersionLess(self._version, "1.1.0")
    THEN Return(Error(self, ctx, 113, VersionMessage(self), PyNone), PyBool(FALSE))
    ELSE author_name_data(self, authorId, Request(self, ctx, w, "getAuthorName", authorId))

\* get_text from line 155 on
get_text_data(self, pad, r) ==
    IF Raised(r.ctx) THEN r
    ELSE IF r.ret.t # "dict" THEN TypeError(r.ctx, "'bool' object is not subscriptable")
    ELSE IF r.ret.d.code # 0
    THEN Return(Error(self, r.ctx, 156, "PadId \"" \o pad \o "\" does not exist.", PyNone),
                PyBool(FALSE))
    ELSE IF r.ret.d.data.t # "dict"
    THEN TypeError(DataRead(r, "getText"), "'NoneType' object is not subscriptable")
    ELSE Return(DataRead(r, "getText"), PyStr(r.ret.d.data.d.text))

\* Etherpad.get_text(pad)
get_text(self, ctx, w, pad) ==
    IF VersionLess(self._version, "1.0.0")
    THEN Return(Error(self, ctx, 145, VersionMessage(self), PyNone), PyBool(FALSE))
    ELSE get_text_data(self, pad, Request(self, ctx, w, "getText", pad))

----------------------------------------------------------------------------
(* bs4.BeautifulSoup, for markup made of text and elements that hold text *)

TextNode(text) == [name |-> "", class |-> "", string |-> text]

\* the value of the class attribute of an opening tag, "" when it has none
\* (k is where class=" starts)
ClassAt(open, k) ==
    IF k = 0 THEN ""
    ELSE SubSeq(open, k + 7, Find(open, "\"", k + 7) - 1)

ClassOf(open) == ClassAt(open, Find(open, "class=\"", 1))

\* the tag name of an opening tag (sp is where its first space is)
NameAt(open, sp) == IF sp = 0 THEN open ELSE SubSeq(open, 1, sp - 1)

NameOf(open) == NameAt(open, Find(open, " ", 1))

RECURSIVE BeautifulSoup(_)

\* the element whose opening tag ends at gt and whose closing tag starts at ce
ElementAt(content, gt, name, ce) ==
    <<[name |-> name, class |-> ClassOf(SubSeq(content, 2, gt - 1)),
       string |-> SubSeq(content, gt + 1, ce - 1)]>>
      \o BeautifulSoup(Tail_(content, ce + Len(name) + 3))

ElementNamed(content, gt, name) ==
    ElementAt(content, gt, name, Find(content, "</" \o name \o ">", gt + 1))

ElementFrom(content, gt) ==
    ElementNamed(content, gt, NameOf(SubSeq(content, 2, gt - 1)))

\* the text up to the next tag, which starts at lt
TextUpTo(content, lt) ==
    IF lt = 0 THEN <<TextNode(content)>>
    ELSE <<TextNode(SubSeq(content, 1, lt - 1))>> \o BeautifulSoup(Tail_(content, lt))

\* BeautifulSoup(content, 'html.parser'): the nodes of the document
BeautifulSoup(content) ==
    IF Len(content) = 0 THEN <<>>
    ELSE IF StartsWith(content, "<") THEN ElementFrom(content, Find(content, ">", 1))
    ELSE TextUpTo(content, Find(content, "<", 1))

\* str(node)
RenderNode(n) ==
    IF n.name = "" THEN n.string
    ELSE "<" \o n.name \o (IF n.class = "" THEN "" ELSE " class=\"" \o n.class \o "\"")
           \o ">" \o n.string \o "</" \o n.name \o ">"

\* str(soup)
RECURSIVE Render(_)
Render(nodes) ==
    IF Len(nodes) = 0 THEN "" ELSE RenderNode(Head(nodes)) \o Render(Tail(nodes))

\* element.replace_with('') for every element of soup.findAll('style')
RemoveStyles(nodes) ==
    [i \in 1..Len(nodes) |-> IF nodes[i].name = "style" THEN TextNode("") ELSE nodes[i]]

\* str(x) of what __unique_contributions returned
Str(x) == IF x.t = "soup" THEN Render(x.nodes) ELSE Format(x)

\* whether the class attribute holds the token cls
HasClass(tokens, cls) == \E k \in 1..Len(tokens) : tokens[k] = cls

\* str(edit.string) for every edit of soup.find_all('span', class_=cls)
RECURSIVE FindAllStrings(_, _)
FindAllStrings(nodes, cls) ==
    IF Len(nodes) = 0 THEN <<>>
    ELSE (IF Head(nodes).name = "span" /\ HasClass(Split(Head(nodes).class, " "), cls)
          THEN <<IF Head(nodes).string = "" THEN "None" ELSE Head(nodes).string>>
          ELSE <<>>)
           \o FindAllStrings(Tail(nodes), cls)

----------------------------------------------------------------------------
(* The diff methods *)

\* lines 273-276: re.sub('\"', '"', ...) and the removal of \n, \t and \r
Unescape(content) ==
    Replace(Replace(Replace(Replace(content, "\"", "\""), "\n", ""), "\t", ""), "\r", "")

\* __unique_contributions from line 266 on
unique_contributions_data(self, pad, r) ==
    IF Raised(r.ctx) THEN r
    ELSE IF r.ret.t # "dict" THEN TypeError(r.ctx, "'bool' object is not subscriptable")
    ELSE IF r.ret.d.code # 0
    THEN Return(Error(self, r.ctx, 267, "PadId \"" \o pad \o "\" does not exist.", PyNone),
                PyBool(FALSE))
    ELSE IF r.ret.d.data.t # "dict"
    THEN TypeError(DataRead(r, "createDiffHTML"), "'NoneType' object is not subscriptable")
    ELSE Return(DataRead(r, "createDiffHTML"),
                [t |-> "soup",
                 nodes |-> RemoveStyles(BeautifulSoup(Unescape(r.ret.d.data.d.html)))])

\* Etherpad.__unique_contributions(pad)
unique_contributions(self, ctx, w, pad) ==
    IF VersionLess(self._version, "1.2.7")
    THEN Return(Error(self, ctx, 255, VersionMessage(self), PyNone), PyBool(FALSE))
    ELSE unique_contributions_data(self, pad, Request(self, ctx, w, "createDiffHTML", pad))

\* the loop of get_html: for i, author in enumerate(authors, 1)
RECURSIVE RelabelLoop(_, _, _)
RelabelLoop(soup, authors, i) ==
    IF Len(authors) = 0 THEN soup
    ELSE RelabelLoop(Replace(soup, "authora_" \o Tail_(Head(authors), 3), "author" \o IntStr(i)),
                     Tail(authors), i + 1)

\* get_html from line 175 on, u being what __unique_contributions handed back
get_html_soup(authors, u) ==
    IF Raised(u.ctx) THEN u
    ELSE Return(u.ctx, PyStr(RelabelLoop(Str(u.ret), authors, 1)))

\* Etherpad.get_html(pad, authors)
get_html(self, ctx, w, pad, authors) ==
    get_html_soup(authors, unique_contributions(self, ctx, w, pad))

\* get_edits from line 198 on
get_edits_soup(author, u) ==
    IF Raised(u.ctx) THEN u
    ELSE IF u.ret.t # "soup"
    THEN Return(Raise(u.ctx, Exc("AttributeError", "'bool' object has no attribute 'find_all'")),
                PyNone)
    ELSE Return(u.ctx, PyList(FindAllStrings(u.ret.nodes, "author" \o Replace(author, ".", "_"))))

\* Etherpad.get_edits(pad, author)
get_edits(self, ctx, w, pad, author) ==
    get_edits_soup(author, unique_contributions(self, ctx, w, pad))

----------------------------------------------------------------------------
(* Etherpad.all_pads_with_authors *)

\* for author in authors: meta_authors[author] = self.author_name(author)
RECURSIVE NameLoop(_, _, _, _, _)
NameStep(self, w, authors, meta_authors, n) ==
    IF Raised(n.ctx) THEN n
    ELSE NameLoop(self, n.ctx, w, Tail(authors), (Head(authors) :> n.ret) @@ meta_authors)

NameLoop(self, ctx, w, authors, meta_authors) ==
    IF Len(authors) = 0 THEN Return(ctx, PyDict(meta_authors))
    ELSE NameStep(self, w, authors, meta_authors, author_name(self, ctx, w, Head(authors)))

\* if len(pad) == 13
AllowedPad(pad) == Len(pad) = 13

\* A client that keeps every pad that has an author
AtLeastOneAuthor(authors) == Len(authors) > 0

\* if len(authors) > 1
EnoughAuthors(authors) == Len(authors) > 1

RECURSIVE PadLoop(_, _, _, _, _)

\* lines 228-235: the names of the authors, then meta_pads.append(...)
PadEntry(self, w, pads, meta_pads, timestamp, names) ==
    IF Raised(names.ctx) THEN names
    ELSE PadLoop(self, names.ctx, w, Tail(pads),
                 Append(meta_pads, [padId |-> Head(pads), timestamp |-> timestamp,
                                    authors |-> names.ret.d]))

\* lines 223-226: ['data']['lastEdited'] of the getLastEdited reply t, then
\* len(authors)
PadTimestamp(self, w, pads, meta_pads, authors, t) ==
    IF Raised(t.ctx) THEN t
    ELSE IF t.ret.t # "dict" THEN TypeError(t.ctx, "'bool' object is not subscriptable")
    ELSE IF t.ret.d.data.t # "dict"
    THEN TypeError(DataRead(t, "getLastEdited"), "'NoneType' object is not subscriptable")
    ELSE IF authors.t # "list"
    THEN TypeError(DataRead(t, "getLastEdited"), "object of type 'bool' has no len()")
    ELSE IF ~EnoughAuthors(authors.l)
    THEN PadLoop(self, DataRead(t, "getLastEdited"), w, Tail(pads), meta_pads)
    ELSE PadEntry(self, w, pads, meta_pads, t.ret.d.data.d.lastEdited,
                  NameLoop(self, DataRead(t, "getLastEdited"), w, authors.l, <<>>))

\* line 222 done: a is what unique_authors handed back
PadAuthors(self, w, pads, meta_pads, a) ==
    IF Raised(a.ctx) THEN a
    ELSE PadTimestamp(self, w, pads, meta_pads, a.ret,
                      Request(self, a.ctx, w, "getLastEdited", Head(pads)))

\* for pad in pads
PadLoop(self, ctx, w, pads, meta_pads) ==
    IF Len(pads) = 0 THEN Return(ctx, PyList(meta_pads))
    ELSE IF ~AllowedPad(Head(pads)) THEN PadLoop(self, ctx, w, Tail(pads), meta_pads)
    ELSE PadAuthors(self, w, pads, meta_pads, unique_authors(self, ctx, w, Head(pads)))

\* line 214: ['data']['padIDs'] of the listAllPads reply r, whatever its code
all_pads_listing(self, w, r) ==
    IF Raised(r.ctx) THEN r
    ELSE IF r.ret.t # "dict" THEN TypeError(r.ctx, "'bool' object is not subscriptable")
    ELSE IF r.ret.d.data.t # "dict"
    THEN TypeError(DataRead(r, "listAllPads"), "'NoneType' object is not subscriptable")
    ELSE PadLoop(self, DataRead(r, "listAllPads"), w, r.ret.d.data.d.padIDs, <<>>)

\* Etherpad.all_pads_with_authors()
all_pads_with_authors(self, ctx, w) ==
    all_pads_listing(self, w, Request(self, ctx, w, "listAllPads", ""))

----------------------------------------------------------------------------
(* Etherpad.__init__ *)

\* the attributes of the class, which an instance reads until it sets its own
ClassAttrs ==
    [_base |-> PyNone, _apikey |-> PyNone, _version |-> "1.2.12", _ignore |-> TRUE]

\* lines 59-63: version and ignore
init_mode(o, version, ignore) ==
    [ctx |-> o.ctx,
     self |-> [o.self EXCEPT !._version = IF version.t = "str" THEN version.s ELSE @,
                             !._ignore = IF ignore = FALSE THEN FALSE ELSE @]]

\* lines 54-57: the check of apikey
init_apikey(o, apikey) ==
    IF apikey.t # "str"
    THEN [ctx |-> Error(o.self, o.ctx, 55, "A valid API key must be specified.", PyNone),
          self |-> o.self]
    ELSE [ctx |-> o.ctx, self |-> [o.self EXCEPT !._apikey = apikey]]

\* lines 49-52: the check of url
init_url(ctx, url) ==
    IF url.t # "str"
    THEN [ctx |-> Error(ClassAttrs, ctx, 50, "A valid url must be specified.", PyNone),
          self |-> ClassAttrs]
    ELSE [ctx |-> ctx, self |-> [ClassAttrs EXCEPT !._base = url]]

\* a step of __init__ that an exception of an earlier step skips
init_then_apikey(o, apikey) == IF Raised(o.ctx) THEN o ELSE init_apikey(o, apikey)

init_then_mode(o, version, ignore) ==
    IF Raised(o.ctx) THEN o ELSE init_mode(o, version, ignore)

\* Etherpad.__init__(url, apikey, version, ignore): the checks of url and
\* apikey run while self._ignore is still the class's True
init(ctx, url, apikey, version, ignore) ==
    init_then_mode(init_then_apikey(init_url(ctx, url), apikey), version, ignore)

----------------------------------------------------------------------------
(* The inputs of the calls *)

Clients == {"A", "B"}

GoodUrl == PyStr("localhost:9001")

GoodKey == PyStr("secret")

Urls == {GoodUrl, PyInt(9001)}

ApiKeys == {GoodKey, PyNone}

\* the version argument: None leaves the class's '1.2.12'
Versions == {PyNone, PyStr("0.9.9"), PyStr("1.0.0")}

GateVersions ==
    Versions \cup {PyStr("1.1.0"), PyStr("1.2.6"), PyStr("1.2.7"), PyStr("1.10.0")}

AuthorOrders == {<<>>, <<"a.7">>, <<"a.12", "a.123">>, <<"a.123", "a.12">>}

SomeMap == CHOOSE m \in AuthorMaps : m["g.abcdefgh$p1"] = <<"a.12", "a.123">>

\* the server as a call that makes the one request (method, arg) meets it
OneRequest(method, arg, maps) ==
    { [pads |-> <<>>, amap |-> m, fault |-> f] :
        m \in maps, f \in {NoFault} \cup Faults({<<method, arg>>}) }

\* the requests all_pads_with_authors can make for a listing
PadRequests(pads) ==
    {<<"listAllPads", "">>}
      \cup { <<"listAuthorsOfPad", pads[i]>> : i \in 1..Len(pads) }
      \cup { <<"getLastEdited", pads[i]>> : i \in 1..Len(pads) }
      \cup { <<"getAuthorName", a>> : a \in AuthorIds }

\* the server as all_pads_with_authors meets it: a listing, the authors of
\* the pads, and at most one failing request
PadWorlds ==
    UNION { { [pads |-> l, amap |-> m, fault |-> f] :
                m \in AuthorMaps, f \in {NoFault} \cup Faults(PadRequests(l)) } :
            l \in Listings }

\* the servers that fail no request but, at most, one getAuthorName
NameFaultWorlds ==
    { w \in PadWorlds : w.fault.method \in {"", "getAuthorName"} /\ w.fault.kind # "http" }

----------------------------------------------------------------------------
(* The state machine *)

NoCall ==
    [op |-> "", self |-> "", arg |-> <<>>, w |-> <<>>, exc |-> NoExc, ret |-> PyNone,
     trace |-> <<>>, log0 |-> <<>>]

Init ==
    /\ _log = <<>>
    /\ inst = [c \in Clients |-> [alive |-> FALSE, attrs |-> ClassAttrs]]
    /\ last = NoCall
    /\ now = 0

\* self._log of an instance: no instance has a _log of its own, so the
\* lookup finds the list of the class
LogOf(c) == _log

\* c = Etherpad(url, apikey, version, ignore)
Construct(c, url, apikey, version, ignore) ==
    /\ ~inst[c].alive
    /\ \E out \in {init(Ctx(_log, now), url, apikey, version, ignore)} :
          /\ _log' = out.ctx.log
          /\ inst' = IF Raised(out.ctx) THEN inst
                     ELSE [inst EXCEPT ![c] = [alive |-> TRUE, attrs |-> out.self]]
          /\ last' = [op |-> "__init__", self |-> c,
                      arg |-> [url |-> url, apikey |-> apikey, version |-> version,
                               ignore |-> ignore],
                      w |-> <<>>, exc |-> out.ctx.exc, ret |-> PyNone,
                      trace |-> out.ctx.trace, log0 |-> _log]
    /\ UNCHANGED now

\* the state after a method call on instance c that ran to `out`
Called(c, op, arg, w, out) ==
    /\ _log' = out.ctx.log
    /\ last' = [op |-> op, self |-> c, arg |-> arg, w |-> w, exc |-> out.ctx.exc,
                ret |-> out.ret, trace |-> out.ctx.trace, log0 |-> _log]
    /\ now' = now + 1
    /\ UNCHANGED inst

\* instance c exists and may be called
Callable(c) == inst[c].alive /\ now < MaxCalls

UniqueAuthors(c, pad, w) ==
    /\ Callable(c)
    /\ \E out \in {unique_authors(inst[c].attrs, Ctx(_log, now), w, pad)} :
          Called(c, "unique_authors", pad, w, out)

AuthorNameOf(c, authorId, w) ==
    /\ Callable(c)
    /\ \E out \in {author_name(inst[c].attrs, Ctx(_log, now), w, authorId)} :
          Called(c, "author_name", authorId, w, out)

GetText(c, pad, w) ==
    /\ Callable(c)
    /\ \E out \in {get_text(inst[c].attrs, Ctx(_log, now), w, pad)} :
          Called(c, "get_text", pad, w, out)

GetHtml(c, pad, authors, w) ==
    /\ Callable(c)
    /\ \E out \in {get_html(inst[c].attrs, Ctx(_log, now), w, pad, authors)} :
          Called(c, "get_html", [pad |-> pad, authors |-> authors], w, out)

GetEdits(c, pad, author, w) ==
    /\ Callable(c)
    /\ \E out \in {get_edits(inst[c].attrs, Ctx(_log, now), w, pad, author)} :
          Called(c, "get_edits", [pad |-> pad, author |-> author], w, out)

AllPadsWithAuthors(c, w) ==
    /\ Callable(c)
    /\ \E out \in {all_pads_with_authors(inst[c].attrs, Ctx(_log, now), w)} :
          Called(c, "all_pads_with_authors", <<>>, w, out)

Next ==
    \/ \E url \in Urls, apikey \in ApiKeys, version \in Versions, ignore \in BOOLEAN :
          Construct("A", url, apikey, version, ignore)
    \/ \E pad \in PadIds :
          \E w \in OneRequest("listAuthorsOfPad", pad, AuthorMaps) : UniqueAuthors("A", pad, w)
    \/ \E a \in AuthorIds :
          \E w \in OneRequest("getAuthorName", a, {SomeMap}) : AuthorNameOf("A", a, w)
    \/ \E pad \in PadIds :
          \E w \in OneRequest("getText", pad, {SomeMap}) : GetText("A", pad, w)
    \/ \E pad \in PadIds, authors \in AuthorOrders :
          \E w \in OneRequest("createDiffHTML", pad, AuthorMaps) : GetHtml("A", pad, authors, w)
    \/ \E pad \in PadIds, a \in AuthorIds :
          \E w \in OneRequest("createDiffHTML", pad, AuthorMaps) : GetEdits("A", pad, a, w)
    \/ \E w \in PadWorlds : AllPadsWithAuthors("A", w)

\* one client and every method
Spec == Init /\ [][Next]_vars

NextShared ==
    \/ \E c \in Clients, url \in Urls, version \in {PyNone, PyStr("0.9.9")}, ignore \in BOOLEAN :
          Construct(c, url, GoodKey, version, ignore)
    \/ \E c \in Clients, pad \in PadIds :
          \E w \in OneRequest("listAuthorsOfPad", pad, {SomeMap}) : UniqueAuthors(c, pad, w)
    \/ \E c \in Clients, a \in AuthorIds :
          \E w \in OneRequest("getAuthorName", a, {SomeMap}) : AuthorNameOf(c, a, w)
    \/ \E c \in Clients, pad \in PadIds :
          \E w \in OneRequest("getText", pad, {SomeMap}) : GetText(c, pad, w)

\* two clients of the one class
SpecShared == Init /\ [][NextShared]_vars

NextGate ==
    \/ \E version \in GateVersions, ignore \in BOOLEAN :
          Construct("A", GoodUrl, GoodKey, version, ignore)
    \/ \E pad \in PadIds :
          \E w \in OneRequest("listAuthorsOfPad", pad, {SomeMap}) : UniqueAuthors("A", pad, w)
    \/ \E a \in AuthorIds :
          \E w \in OneRequest("getAuthorName", a, {SomeMap}) : AuthorNameOf("A", a, w)
    \/ \E pad \in PadIds :
          \E w \in OneRequest("getText", pad, {SomeMap}) : GetText("A", pad, w)
    \/ \E pad \in PadIds, authors \in AuthorOrders :
          \E w \in OneRequest("createDiffHTML", pad, {SomeMap}) : GetHtml("A", pad, authors, w)
    \/ \E pad \in PadIds, a \in AuthorIds :
          \E w \in OneRequest("createDiffHTML", pad, {SomeMap}) : GetEdits("A", pad, a, w)

\* one client of any version and the version-gated methods
SpecGate == Init /\ [][NextGate]_vars

NextPads ==
    \/ \E version \in Versions, ignore \in BOOLEAN :
          Construct("A", GoodUrl, GoodKey, version, ignore)
    \/ \E w \in NameFaultWorlds : AllPadsWithAuthors("A", w)

\* one client listing the pads of a server that answers every listing request
SpecPads == Init /\ [][NextPads]_vars

----------------------------------------------------------------------------
(* What the last call did *)

Methods1 == {"unique_authors", "author_name", "get_text", "get_html", "get_edits"}

PublicOps == Methods1 \cup {"all_pads_with_authors"}

\* the entries the last call appended to the log
Logged == Len(_log) - Len(last.log0)

\* the last call issued an HTTP request
Sent == \E i \in 1..Len(last.trace) : last.trace[i].e = "request"

\* the last call issued the request (method, arg)
SentFor(method, arg) ==
    \E i \in 1..Len(last.trace) :
        /\ last.trace[i].e = "request"
        /\ last.trace[i].method = method
        /\ last.trace[i].arg = arg

\* the version the called instance is configured with
VersionOfSelf == inst[last.self].attrs._version

\* the called instance collects errors (ignore=True) / raises them
CollectMode == inst[last.self].attrs._ignore = TRUE

\* major.minor.patch of the version strings of the model, read off by hand
Triple(v) ==
    CASE v = "0.9.9" -> <<0, 9, 9>>
      [] v = "1.0.0" -> <<1, 0, 0>>
      [] v = "1.1.0" -> <<1, 1, 0>>
      [] v = "1.2.6" -> <<1, 2, 6>>
      [] v = "1.2.7" -> <<1, 2, 7>>
      [] v = "1.2.12" -> <<1, 2, 12>>
      [] v = "1.10.0" -> <<1, 10, 0>>

\* x >= y, component by component
AtLeast(x, y) ==
    \/ x[1] > y[1]
    \/ x[1] = y[1] /\ x[2] > y[2]
    \/ x[1] = y[1] /\ x[2] = y[2] /\ x[3] >= y[3]

\* the minimum version each gated method documents
Minimum(op) ==
    CASE op \in {"unique_authors", "get_text"} -> <<1, 0, 0>>
      [] op = "author_name" -> <<1, 1, 0>>
      [] op \in {"get_html", "get_edits"} -> <<1, 2, 7>>

PassesGate == AtLeast(Triple(VersionOfSelf), Minimum(last.op))

Range(seq) == { seq[i] : i \in 1..Len(seq) }

----------------------------------------------------------------------------
(* C1 *)

\* C1: a gated method (unique_authors and get_text from 1.0.0, author_name
\* from 1.1.0, get_html and get_edits from 1.2.7) issues an HTTP request if
\* and only if the configured version is at least its minimum, compared
\* number by number; below the minimum it logs an error and issues none.
C1_VersionGate ==
    last.op \in Methods1 =>
        /\ Sent <=> PassesGate
        /\ ~PassesGate => Logged = 1 /\ last.trace[1].e = "error"

\* author_name under version 1.0.0: above the gate of unique_authors, below
\* its own; an error is logged and nothing is sent
C1_Witness ==
    /\ last.op = "author_name"
    /\ VersionOfSelf = "1.0.0"
    /\ ~Sent
    /\ Logged = 1

----------------------------------------------------------------------------
(* C8 *)

\* the pads of the listing with an identifier of 13 characters and two or
\* more authors, in listing order
Qualifying(w) ==
    LET Keep(p) == Len(p) = 13 /\ Cardinality(Range(w.amap[p])) >= 2
    IN  SelectSeq(w.pads, Keep)

\* C8: when every call succeeds, all_pads_with_authors returns, in listing
\* order, exactly one entry for each pad whose identifier has length 13 and
\* which has 2 or more authors, and none for any other pad; the keys of an
\* entry's authors are exactly the pad's author identifiers.
C8_PadsWithAuthors ==
    (/\ last.op = "all_pads_with_authors"
     /\ last.w.fault = NoFault
     /\ AtLeast(Triple(VersionOfSelf), <<1, 1, 0>>))
    => /\ last.exc.type = ""
       /\ last.ret.t = "list"
       /\ Len(last.ret.l) = Len(Qualifying(last.w))
       /\ \A i \in 1..Len(last.ret.l) :
             /\ last.ret.l[i].padId = Qualifying(last.w)[i]
             /\ DOMAIN last.ret.l[i].authors = Range(last.w.amap[last.ret.l[i].padId])

\* a listing of two pads of which one is kept and one is not
C8_Witness ==
    /\ last.op = "all_pads_with_authors"
    /\ last.w.fault = NoFault
    /\ AtLeast(Triple(VersionOfSelf), <<1, 1, 0>>)
    /\ Len(last.w.pads) = 2
    /\ last.ret.t = "list"
    /\ Len(last.ret.l) = 1

----------------------------------------------------------------------------
(* C2 *)

\* C2: in every public operation, the data of an API reply whose code is
\* not zero is never read; the reply becomes an error (the replies to
\* listAllPads and getLastEdited in all_pads_with_authors included).
C2_NoDataOfFailedReply ==
    \A i \in 1..Len(last.trace) :
        last.trace[i].e = "data" => last.trace[i].code = 0

----------------------------------------------------------------------------
(* C3 *)

\* the server failed a request the last call made
FaultMet ==
    /\ last.w.fault # NoFault
    /\ SentFor(last.w.fault.method, last.w.fault.arg)

\* the empty or false value of the shape each method returns
Sentinel(op, ret) ==
    CASE op = "unique_authors" -> ret.t = "list" /\ Len(ret.l) = 0
      [] op = "get_edits" ->
            \/ ret.t = "list" /\ Len(ret.l) = 0
            \/ ret.t = "bool" /\ ret.b = FALSE
      [] op \in {"author_name", "get_text", "get_html"} ->
            \/ ret.t = "bool" /\ ret.b = FALSE
            \/ ret.t = "str" /\ Len(ret.s) = 0
      [] OTHER -> ret.t = "list"

\* C3: in collect mode (ignore=True) a public operation that hits an error
\* (version too low, non-200 status, nonzero code) raises nothing and
\* returns the empty or false sentinel of its return shape.
C3_CollectReturnsSentinel ==
    (/\ last.op \in PublicOps
     /\ CollectMode
     /\ (Logged > 0 \/ FaultMet))
    => /\ last.exc.type = ""
       /\ Sentinel(last.op, last.ret)

----------------------------------------------------------------------------
(* C4 *)

\* the errors the last call had to detect, read off its inputs: the bad
\* arguments of the constructor; for a method that makes one request, a
\* version below its minimum or else the failed request
Detected ==
    IF last.op = "__init__"
    THEN (IF last.arg.url.t # "str" THEN 1 ELSE 0)
           + (IF last.arg.apikey.t # "str" THEN 1 ELSE 0)
    ELSE IF ~PassesGate \/ last.w.fault # NoFault THEN 1 ELSE 0

\* C4: every error the client detects (bad constructor argument, version
\* gate, non-200 status, nonzero code) appends exactly one entry to the
\* log, in both modes, and the entries already there stay as they were.
C4_EveryErrorLoggedOnce ==
    last.op \in Methods1 \cup {"__init__"} =>
        /\ Logged = Detected
        /\ SubSeq(_log, 1, Len(last.log0)) = last.log0

----------------------------------------------------------------------------
(* C5 *)

\* C5: the log belongs to the instance: a call on one instance leaves the
\* log of every other instance as it was.
C5_LogPerInstance ==
    [][\A c \in Clients : (inst[c].alive /\ c # last'.self) => LogOf(c)' = LogOf(c)]_vars

----------------------------------------------------------------------------
(* C6 *)

\* the last call asked for the last edit of pad p, which it does for every
\* pad of 13 characters it comes to
Processed(p) == SentFor("getLastEdited", p)

\* C6: in collect mode all_pads_with_authors keeps scanning when the
\* author lookup of a pad fails (listAuthorsOfPad by version gate or API
\* error, or getAuthorName): it comes to every later pad and returns the
\* entries of the other qualifying pads.
C6_KeepsScanning ==
    (/\ last.op = "all_pads_with_authors"
     /\ CollectMode
     /\ last.w.fault.kind # "http"
     /\ last.w.fault.method \in {"", "listAuthorsOfPad", "getAuthorName"})
    => /\ last.exc.type = ""
       /\ \A p \in Range(last.w.pads) : Len(p) = 13 => Processed(p)
       /\ \A p \in Range(Qualifying(last.w)) :
             (AtLeast(Triple(VersionOfSelf), <<1, 0, 0>>) /\ p # last.w.fault.arg)
               => \E i \in 1..Len(last.ret.l) : last.ret.l[i].padId = p

----------------------------------------------------------------------------
(* C7 *)

\* the last call was made with ignore=False
RaiseMode ==
    IF last.op = "__init__" THEN last.arg.ignore = FALSE
    ELSE inst[last.self].attrs._ignore = FALSE

\* C7: in raise mode (ignore=False) the first error an operation detects
\* is raised to the caller and ends the operation: once the error is
\* logged nothing more is requested and nothing is returned.
C7_RaiseAborts ==
    (last.op # "" /\ RaiseMode /\ Logged > 0)
    => /\ last.exc.type = "ValueError"
       /\ Logged = 1
       /\ last.trace[Len(last.trace)].e = "error"
       /\ last.ret.t = "NoneType"

----------------------------------------------------------------------------
(* C9 *)

\* the class token of an author: the identifier without its 2-character
\* prefix, after "authora_"
Token(author) == "authora_" \o SubSeq(author, 3, Len(author))

\* the place of the first author whose token is cls, 0 when none is
Place(authors, cls) ==
    IF \E i \in 1..Len(authors) : Token(authors[i]) = cls
    THEN CHOOSE i \in 1..Len(authors) :
            /\ Token(authors[i]) = cls
            /\ \A j \in 1..(i - 1) : Token(authors[j]) # cls
    ELSE 0

\* the document with the class of every element that is exactly an
\* author's token replaced by the author's place
ExactRelabel(nodes, authors) ==
    [i \in 1..Len(nodes) |->
        IF nodes[i].name # "" /\ Place(authors, nodes[i].class) > 0
        THEN [nodes[i] EXCEPT !.class = "author" \o IntStr(Place(authors, nodes[i].class))]
        ELSE nodes[i]]

\* the document get_html works on
SoupOf(w, pad) == RemoveStyles(BeautifulSoup(Unescape(DiffHtml(w.amap[pad]))))

\* C9: get_html rewrites a class token to author<i> only if it is exactly
\* the token of the i-th author of authorOrder, and leaves the rest of the
\* markup as it is; no token is rewritten because another author's token
\* is a prefix of it.
C9_ExactRelabel ==
    (/\ last.op = "get_html"
     /\ last.w.fault = NoFault
     /\ PassesGate)
    => /\ last.ret.t = "str"
       /\ last.ret.s = Render(ExactRelabel(SoupOf(last.w, last.arg.pad), last.arg.authors))

----------------------------------------------------------------------------
(* C10 *)

Contains(s, part) == Find(s, part, 1) > 0

\* C10: when the API answers with a nonzero code and a message, the error
\* the operation logs and, in raise mode, raises carries that message.
C10_ApiMessageCarried ==
    (/\ last.op \in Methods1
     /\ last.w.fault.kind \in {"api", "key"}
     /\ PassesGate)
    => /\ Logged = 1
       /\ Contains(_log[Len(_log)].error, ApiMessage(last.w.fault.method, last.w.fault.kind))
       /\ ~CollectMode =>
             Contains(last.exc.msg, ApiMessage(last.w.fault.method, last.w.fault.kind))

====
